---- MODULE Spec2Model ----
(***************************************************************************)
(* A model of asmith (src/asmith.py): the per-room to-do lists held by     *)
(* StorageManager, the snapshot files it writes and reads, and the chat    *)
(* command handlers of TodoList and BotManagement that on_message_matrix   *)
(* dispatches to.                                                          *)
(***************************************************************************)
EXTENDS Integers, Sequences, FiniteSets, TLC

(***************************************************************************)
(* Bounds of the model.                                                    *)
(***************************************************************************)
\* calls (chat events and direct StorageManager calls) made in one run
MaxOps == 2
\* seconds the clock advances during the run
MaxClock == 1
\* tasks a room's list may hold before add_task is no longer tried
MaxTasks == 2
\* calls in one run during which a send or a write raises
MaxFaults == 1
\* calls of the connection monitor in one run
MaxCalls == 4
\* task commands in one run of the task commands alone
MaxTaskOps == 4
\* method calls on one task after its creation
MaxMutations == 3
\* handler coroutines that can be in flight at once
MaxInFlight == 2
\* handlers started in one run of interleaved handlers
MaxStarted == 4
\* the greatest --max_retries the monitor is built with
MaxRetries == 4

(***************************************************************************)
(* Program constants and the small input sets the actions draw from.       *)
(***************************************************************************)
APP_NAME == "asmith"

\* the uuid4 of this run; snapshots of earlier runs carry another token
session_id == "s2"

\* Python's None, for an optional argument that was not passed
None == "<None>"

Rooms == {"!r1", "!r2"}
Users == {"@alice", "@bob"}
Titles == {"milk", "eggs"}
LogTexts == {"note"}

TaskEvent ==
    [CREATED |-> "task_created", STATUS_UPDATED |-> "task_status_updated",
     LOG_ADDED |-> "task_log_added", TITLE_EDITED |-> "task_title_edited"]

VARIABLES
    todo_lists,   \* StorageManager.todo_lists: room_id -> sequence of Task
    files,        \* the data directory: filename -> file content
    now,          \* the wall clock, as strftime splits it: [y, r]
    running,      \* FALSE once an exception has left the event callback
    ready_ran,    \* on_ready_matrix has run in this process
    boot,         \* the valid snapshot names in the directory at start
    nops,         \* calls made so far
    nfaults,      \* calls so far during which a send or a write raised
    cmd,          \* the last call: [name, f]
    prev_lists,   \* todo_lists when the last call began
    listed,       \* what list_saved_files returned to the last call
    events,       \* what the last call did, in order: sends and file accesses
    connection_monitor,  \* the ConnectionMonitor object
    failed,       \* the last connection_failed call: [error_type, result]
    sys_exit,     \* main: [status, report, error], NotExited while it runs
    horizon,      \* the number of calls the run is followed for
    coroutines    \* the handler coroutines in flight: slot -> its frame

vars == <<todo_lists, files, now, running, ready_ran, boot, nops, nfaults, cmd,
          prev_lists, listed, events, connection_monitor, failed, sys_exit,
          horizon, coroutines>>

monitor_vars == <<connection_monitor, failed, sys_exit>>

(***************************************************************************)
(* Time.  strftime('%Y-%m-%d_%H-%M-%S') is 19 fixed-width characters; the  *)
(* model keeps its first character (the thousands digit of the year) as y  *)
(* and the other 18 characters, read as a number, as r.                    *)
(***************************************************************************)
strftime(t) == <<t.y, t.r>>

\* date-time order of two formatted timestamps
StampLE(a, b) == a[1] < b[1] \/ (a[1] = b[1] /\ a[2] <= b[2])

(***************************************************************************)
(* File names.  A name is app "_" token "_" stamp ext, kept in pieces:     *)
(* token is a sequence of pieces, stamp is <<>> when the name holds no     *)
(* well-formed date-time segment at that place.                            *)
(***************************************************************************)
NoFile == [app |-> "", token |-> <<>>, stamp |-> <<>>, ext |-> ""]

Name(app, token, stamp, ext) ==
    [app |-> app, token |-> token, stamp |-> stamp, ext |-> ext]

\* Python's  sub in filename, for the two substrings load_command looks for
Contains(filename, sub) ==
    \/ \E i \in DOMAIN filename.token : filename.token[i] = sub
    \/ filename.app = sub

\* re.compile(rf"^{APP_NAME}_.+_[0-9]{4}-...-[0-9]{2}Z\.json$").match:
\* '.' matches every character but a newline, '/' included, and '$' also
\* matches before one trailing newline
filename_pattern_match(filename) ==
    /\ filename.app = APP_NAME
    /\ Len(filename.token) >= 1
    /\ \A i \in DOMAIN filename.token : filename.token[i] # "\n"
    /\ Len(filename.stamp) = 2
    /\ filename.ext \in {"Z.json", "Z.json\n"}

\* str.strip() of the command argument: the trailing newline goes
strip(filename) ==
    IF filename.ext = "Z.json\n" THEN [filename EXCEPT !.ext = "Z.json"]
    ELSE filename

(***************************************************************************)
(* Task                                                                    *)
(***************************************************************************)
\* a Python tuple and a Python list of the same items are different values
py_tuple(items) == [type |-> "tuple", items |-> items]
py_list(items) == [type |-> "list", items |-> items]

\* the (timestamp, user, action) tuple add_internal_log appends
add_internal_log(task, sender, log, extra_info, t) ==
    [task EXCEPT !.internal_logs =
        Append(@, py_tuple(<<strftime(t), sender, <<log>> \o extra_info>>))]

\* old_title[:30] followed by '...' when longer; the titles here are short
Truncated(s) == s

Task__init__(sender, id, title, status, logs, creator, t) ==
    add_internal_log(
        [id |-> id, title |-> title, status |-> status, logs |-> logs,
         internal_logs |-> <<>>,
         creator |-> IF creator \in {None, ""} THEN sender ELSE creator],
        sender, TaskEvent.CREATED, <<>>, t)

\* add_log putting the note first
add_log_first(task, sender, log, t) ==
    add_internal_log([task EXCEPT !.logs = <<log>> \o @],
                     sender, TaskEvent.LOG_ADDED, <<Truncated(log)>>, t)

add_log(task, sender, log, t) ==
    add_internal_log([task EXCEPT !.logs = Append(@, log)],
                     sender, TaskEvent.LOG_ADDED, <<Truncated(log)>>, t)

set_status(task, sender, status, t) ==
    add_internal_log([task EXCEPT !.status = status],
                     sender, TaskEvent.STATUS_UPDATED, <<task.status, status>>, t)

\* set_title dropping the notes of the task
set_title_drops_logs(task, sender, title, t) ==
    add_internal_log([task EXCEPT !.title = title, !.logs = <<>>],
                     sender, TaskEvent.TITLE_EDITED,
                     <<Truncated(task.title), Truncated(title)>>, t)

set_title(task, sender, title, t) ==
    add_internal_log([task EXCEPT !.title = title],
                     sender, TaskEvent.TITLE_EDITED,
                     <<Truncated(task.title), Truncated(title)>>, t)

(***************************************************************************)
(* Snapshot files.  A file holds a JSON object room -> array of task       *)
(* objects, or text json.load cannot parse.  A task object is a record     *)
(* that may lack keys.                                                     *)
(***************************************************************************)
Garbage == [kind |-> "garbage", data |-> <<>>]
JsonObject(data) == [kind |-> "object", data |-> data]

\* default=lambda o: o.__dict__ : the six attributes of a Task
Task__dict__(task) ==
    [id |-> task.id, title |-> task.title, status |-> task.status,
     logs |-> task.logs, internal_logs |-> task.internal_logs,
     creator |-> task.creator]

\* the task object json.dump writes and json.load reads back: a history
\* entry, tuple or list, is written as an array and an array is read as a
\* list
json_task(task) ==
    [Task__dict__(task) EXCEPT
        !.internal_logs = [i \in DOMAIN @ |-> py_list(@[i].items)]]

json_dump(lists) ==
    JsonObject([room \in DOMAIN lists |->
                   [i \in DOMAIN lists[room] |-> json_task(lists[room][i])]])

\* the name without the Z after the date-time
save_filename_without_Z(t) == Name(APP_NAME, <<session_id>>, strftime(t), ".json")

\* the name save() builds from the session id and the UTC clock
save_filename(t) == Name(APP_NAME, <<session_id>>, strftime(t), "Z.json")

\* open(filepath, "w") and json.dump: the file of that name is created or
\* truncated and holds the whole mapping
save_write(fs, lists, t) ==
    (save_filename(t) :> json_dump(lists)) @@ fs

\* task_data["id"], ["title"], ["status"] raise KeyError when missing
TaskDataOK(task_data) == {"id", "title", "status"} \subseteq DOMAIN task_data

\* load() without the assignment that restores the saved history: the
\* entry the constructor appended stays
task_from_data_keeps_created(task_data, t) ==
    LET creator == IF "creator" \in DOMAIN task_data
                   THEN task_data.creator ELSE "Unknown"
        logs == IF "logs" \in DOMAIN task_data THEN task_data.logs ELSE <<>>
    IN Task__init__(creator, task_data.id, task_data.title, task_data.status,
                    logs, creator, t)

\* the Task that load() builds from one task object
task_from_data(task_data, t) ==
    LET creator == IF "creator" \in DOMAIN task_data
                   THEN task_data.creator ELSE "Unknown"
        logs == IF "logs" \in DOMAIN task_data THEN task_data.logs ELSE <<>>
        task == Task__init__(creator, task_data.id, task_data.title,
                             task_data.status, logs, creator, t)
    IN IF "internal_logs" \in DOMAIN task_data
       THEN [task EXCEPT !.internal_logs = task_data.internal_logs]
       ELSE task

\* the order in which data.items() yields the rooms of a file
RoomOrder == <<"!r1", "!r2">>
items_order(S) == LET In(room) == room \in S IN SelectSeq(RoomOrder, In)

\* the loop of load(): reconstructed_todo_lists grows room by room and the
\* first task object without a required key ends it
RECURSIVE reconstruct(_, _, _, _)
reconstruct(data, order, acc, t) ==
    IF order = <<>> THEN [ok |-> TRUE, lists |-> acc]
    ELSE LET room == Head(order)
             tasks == data[room]
         IN IF \E i \in DOMAIN tasks : ~TaskDataOK(tasks[i])
            THEN [ok |-> FALSE, lists |-> acc]
            ELSE reconstruct(data, Tail(order),
                             (room :> [i \in DOMAIN tasks |->
                                          task_from_data(tasks[i], t)]) @@ acc,
                             t)

EmptyLists == [room \in {} |-> <<>>]

\* the try block of load(): open, json.load and the loop
load_try(fs, filename, t) ==
    IF filename \notin DOMAIN fs THEN [ok |-> FALSE, lists |-> EmptyLists]
    ELSE IF fs[filename].kind # "object" THEN [ok |-> FALSE, lists |-> EmptyLists]
    ELSE reconstruct(fs[filename].data, items_order(DOMAIN fs[filename].data),
                     EmptyLists, t)

\* load() storing each room as soon as it is rebuilt
load_assign_room_by_room(lists, r) == r.lists @@ lists

\* self.todo_lists after load(): assigned once, after the loop, on success
\* load() keeping the rooms the snapshot does not have
load_assign_merge(lists, r) == IF r.ok THEN r.lists @@ lists ELSE lists

load_assign(lists, r) == IF r.ok THEN r.lists ELSE lists

\* load(filename): what it returns, the mapping it leaves and whether it
\* went to the filesystem
load(fs, lists, filename, t) ==
    IF ~filename_pattern_match(filename)
    THEN [ok |-> FALSE, lists |-> lists, opened |-> FALSE]
    ELSE LET r == load_try(fs, filename, t)
         IN [ok |-> r.ok, lists |-> load_assign(lists, r), opened |-> TRUE]

\* os.listdir(data_dir): the entries of the directory itself; a name with a
\* path separator is a file of another directory
listdir(fs) == {f \in DOMAIN fs : ~Contains(f, "/")}

\* key=lambda x: x[-24:-5] : the 19 characters before ".json", which are the
\* last 18 characters of the date-time segment and the "Z"
sort_key(filename) ==
    IF Len(filename.stamp) = 2 THEN filename.stamp[2] ELSE 0

\* list.sort is stable and os.listdir's order is arbitrary: every listing
\* with non-decreasing keys can be the result
RECURSIVE sorted_by_key(_)
sorted_by_key(S) ==
    IF S = {} THEN {<<>>}
    ELSE UNION { { <<x>> \o rest : rest \in sorted_by_key(S \ {x}) } :
                 x \in {x \in S : \A y \in S : sort_key(x) <= sort_key(y)} }

\* the listing without the filter on the names
list_saved_files_unfiltered(fs) == sorted_by_key(listdir(fs))

list_saved_files(fs) ==
    sorted_by_key({f \in listdir(fs) : filename_pattern_match(f)})

\* files[0] in the place of files[-1]
most_recent_takes_first(names) == names[1]

\* files[-1]
most_recent(names) == names[Len(names)]

(***************************************************************************)
(* What a call does, in order.                                             *)
(***************************************************************************)
Send(msg) == [e |-> "send", msg |-> msg, f |-> NoFile]
SendRaises(msg) == [e |-> "send_raises", msg |-> msg, f |-> NoFile]
OpenW(f) == [e |-> "open_w", msg |-> "", f |-> f]
OpenWRaises(f) == [e |-> "open_w_raises", msg |-> "", f |-> f]
OpenR(f) == [e |-> "open_r", msg |-> "", f |-> f]
ListDir == [e |-> "listdir", msg |-> "", f |-> NoFile]
\* what a direct call of save() or load() gives its caller
Return(value, f) == [e |-> "return", msg |-> value, f |-> f]
Raise == [e |-> "raise", msg |-> "OSError", f |-> NoFile]

\* what the environment does to a call: every send and write works, the
\* handler's send raises, that send and the error report of
\* on_message_matrix raise, or open(filepath, "w") raises
SendOutcomes == {"ok", "send_raises", "all_sends_raise"}
Outcomes == SendOutcomes \cup {"open_raises"}

\* a handler that sends one message: when the send raises, the except clause
\* of on_message_matrix reports it; when that send raises too the exception
\* leaves the callback
reply(msg, io) ==
    CASE io = "send_raises" ->
            [events |-> <<SendRaises(msg), Send("error_occurred")>>, running |-> TRUE]
      [] io = "all_sends_raise" ->
            [events |-> <<SendRaises(msg), SendRaises("error_occurred")>>,
             running |-> FALSE]
      [] OTHER -> [events |-> <<Send(msg)>>, running |-> TRUE]

\* the tail of a mutating handler with a save() that swallows its error
reply_then_save_swallows(fs, lists, msg, io, t) ==
    CASE io = "ok" ->
            [files |-> save_write(fs, lists, t),
             events |-> <<Send(msg), OpenW(save_filename(t))>>, running |-> TRUE]
      [] io = "open_raises" ->
            [files |-> fs,
             events |-> <<Send(msg), OpenWRaises(save_filename(t))>>,
             running |-> TRUE]
      [] OTHER -> [files |-> fs] @@ reply(msg, io)

\* the tail of a mutating handler: await send_matrix_message(...) and then
\* await self.storage.save()
reply_then_save(fs, lists, msg, io, t) ==
    CASE io = "ok" ->
            [files |-> save_write(fs, lists, t),
             events |-> <<Send(msg), OpenW(save_filename(t))>>, running |-> TRUE]
      [] io = "open_raises" ->
            [files |-> fs,
             events |-> <<Send(msg), OpenWRaises(save_filename(t)),
                          Send("error_occurred")>>,
             running |-> TRUE]
      [] OTHER -> [files |-> fs] @@ reply(msg, io)

\* a call that names no room, and a call of a handler with its room and
\* task number (0 where the handler takes none); the sender is kept for
\* add_task, where it becomes the creator
(***************************************************************************)
(* ConnectionMonitor                                                       *)
(***************************************************************************)
\* None where a datetime is held
NoTime == [y |-> 0, r |-> 0]

ConnectionMonitor__init__(max_retries) ==
    [max_retries |-> max_retries, consecutive_failures |-> 0,
     total_failures |-> 0, failure_types |-> <<>>,
     last_failure_time |-> NoTime, first_failure_time |-> NoTime]

\* connection_successful that forgets everything
connection_successful_clears_all(self) ==
    ConnectionMonitor__init__(self.max_retries)

connection_successful(self) == [self EXCEPT !.consecutive_failures = 0]

\* the five names connection_failed treats as critical
critical_errors ==
    {"LoginError", "SyncError", "LocalProtocolError", "OlmUnpickleError",
     "EncryptionError"}

\* the update with the histogram entry set to 1 every time
connection_failed_update_entry_set(self, error_type, t) ==
    [self EXCEPT
        !.first_failure_time = IF self.consecutive_failures = 0 THEN t ELSE @,
        !.consecutive_failures = @ + 1,
        !.total_failures = @ + 1,
        !.last_failure_time = t,
        !.failure_types = (error_type :> 1) @@ @]

\* the counters, the histogram and the two times after connection_failed
connection_failed_update(self, error_type, t) ==
    [self EXCEPT
        !.first_failure_time = IF self.consecutive_failures = 0 THEN t ELSE @,
        !.consecutive_failures = @ + 1,
        !.total_failures = @ + 1,
        !.last_failure_time = t,
        !.failure_types =
            IF error_type \in DOMAIN @
            THEN [@ EXCEPT ![error_type] = @ + 1]
            ELSE (error_type :> 1) @@ @]

\* the result without the test for critical errors
connection_failed_result_by_budget(self, error_type) ==
    self.consecutive_failures >= self.max_retries

\* the result with the critical errors ending the run at once
connection_failed_result_critical_at_once(self, error_type) ==
    \/ error_type \in critical_errors
    \/ self.consecutive_failures >= self.max_retries

\* what connection_failed returns, self being the monitor after the update
connection_failed_result(self, error_type) ==
    IF error_type \in critical_errors /\ self.consecutive_failures >= 2
    THEN TRUE
    ELSE IF self.consecutive_failures >= self.max_retries
    THEN TRUE
    ELSE FALSE

NoFailure == [error_type |-> None, result |-> FALSE]
\* the exit status of a process that has not exited
NotExited == -1
Running == [status |-> NotExited, report |-> FALSE, error |-> None]

\* --max_retries when the option is not given
DEFAULT_MAX_RETRIES == 3

Call(name, f) == [name |-> name, f |-> f, room |-> None, sender |-> None, n |-> 0]
CallAt(name, room_id, sender, task_number) ==
    [name |-> name, f |-> NoFile, room |-> room_id, sender |-> sender,
     n |-> task_number]

\* a call is made while the process runs, under the outcome io; names is
\* the listing it got from list_saved_files
BeginCall(call, io, names) ==
    /\ running
    /\ nops < horizon
    /\ io # "ok" => nfaults < MaxFaults
    /\ nops' = nops + 1
    /\ nfaults' = IF io = "ok" THEN nfaults ELSE nfaults + 1
    /\ cmd' = call
    /\ prev_lists' = todo_lists
    /\ listed' = names
    /\ UNCHANGED <<now, boot, horizon, coroutines>>

\* a call that leaves the connection monitor alone
BeginListed(call, io, names) ==
    BeginCall(call, io, names) /\ UNCHANGED monitor_vars

Begin(call, io) == BeginListed(call, io, <<>>)

Tasks(room) == IF room \in DOMAIN todo_lists THEN todo_lists[room] ELSE <<>>

\* a pop that takes the last element whatever the index
pop_last(tasks, n) == SubSeq(tasks, 1, Len(tasks) - 1)

\* a pop that marks the task done and leaves it in the list
pop_keeps_done(tasks, n) == [tasks EXCEPT ![n].status = "done"]

\* list.pop(task_number - 1)
pop(tasks, n) == SubSeq(tasks, 1, n - 1) \o SubSeq(tasks, n + 1, Len(tasks))

TaskNumbers == 0 .. MaxTasks + 1

\* the range check with 0 let through
valid_task_number_from_zero(task_number, tasks) ==
    0 <= task_number /\ task_number <= Len(tasks)

\* 0 < task_number <= len(tasks)
valid_task_number(task_number, tasks) ==
    0 < task_number /\ task_number <= Len(tasks)

(***************************************************************************)
(* TodoList                                                                *)
(***************************************************************************)
\* ids counted from one
task_id_from_one(tasks) == Len(tasks) + 1

\* task_id = len(self.storage.todo_lists[room_id])
task_id(tasks) == Len(tasks)

add_task(room_id, sender, task_title, io) ==
    LET tasks == Tasks(room_id)
        new_task == Task__init__(sender, task_id(tasks), task_title, "pending",
                                 <<>>, None, now)
        lists == (room_id :> Append(tasks, new_task)) @@ todo_lists
        out == reply_then_save(files, lists, "task_added", io, now)
    IN /\ Len(tasks) < MaxTasks
       /\ Begin(CallAt("add_task", room_id, sender, 0), io)
       /\ todo_lists' = lists
       /\ files' = out.files
       /\ events' = out.events
       /\ running' = out.running
       /\ UNCHANGED ready_ran

\* a handler that only answers
Answer(call, msg, io) ==
    LET out == reply(msg, io)
    IN /\ Begin(call, io)
       /\ events' = out.events
       /\ running' = out.running
       /\ UNCHANGED <<todo_lists, files, ready_ran>>

\* a handler that has changed the lists, answers and saves
Change(call, lists, msg, io) ==
    LET out == reply_then_save(files, lists, msg, io, now)
    IN /\ Begin(call, io)
       /\ todo_lists' = lists
       /\ files' = out.files
       /\ events' = out.events
       /\ running' = out.running
       /\ UNCHANGED ready_ran

\* list_tasks reading the list with setdefault
list_tasks_setdefault(room_id, io) ==
    LET out == reply(IF Tasks(room_id) = <<>> THEN "no_tasks" ELSE "todo_list", io)
    IN /\ io \in SendOutcomes
       /\ Begin(CallAt("list_tasks", room_id, None, 0), io)
       /\ todo_lists' = (room_id :> Tasks(room_id)) @@ todo_lists
       /\ events' = out.events
       /\ running' = out.running
       /\ UNCHANGED <<files, ready_ran>>

list_tasks(room_id, io) ==
    /\ io \in SendOutcomes
    /\ Answer(CallAt("list_tasks", room_id, None, 0),
              IF Tasks(room_id) = <<>> THEN "no_tasks" ELSE "todo_list", io)

\* done_task and close_task differ in the status and the message
remove_task(name, room_id, sender, task_number, status, msg, io) ==
    LET tasks == Tasks(room_id)
        call == CallAt(name, room_id, None, task_number)
    IN IF tasks = <<>>
       THEN io \in SendOutcomes /\ Answer(call, "no_tasks", io)
       ELSE IF valid_task_number(task_number, tasks)
       THEN Change(call, [todo_lists EXCEPT ![room_id] = pop(tasks, task_number)],
                   msg, io)
       ELSE io \in SendOutcomes /\ Answer(call, "invalid_task_number", io)

done_task(room_id, sender, task_number, io) ==
    remove_task("done_task", room_id, sender, task_number, "done", "task_done", io)

close_task(room_id, sender, task_number, io) ==
    remove_task("close_task", room_id, sender, task_number, "closed",
                "task_closed", io)

log_task(room_id, sender, task_number, log, io) ==
    LET tasks == Tasks(room_id)
        call == CallAt("log_task", room_id, None, task_number)
    IN IF tasks = <<>>
       THEN io \in SendOutcomes /\ Answer(call, "no_tasks", io)
       ELSE IF valid_task_number(task_number, tasks)
       THEN Change(call,
                   [todo_lists EXCEPT ![room_id][task_number] =
                       add_log(@, sender, log, now)],
                   "log_added", io)
       ELSE io \in SendOutcomes /\ Answer(call, "invalid_task_number", io)

\* details_task without its test for an empty list
details_task_without_empty_test(room_id, task_number, io) ==
    LET tasks == Tasks(room_id)
        call == CallAt("details_task", room_id, None, task_number)
    IN /\ io \in SendOutcomes
       /\ IF valid_task_number(task_number, tasks)
          THEN Answer(call, "task_details", io)
          ELSE Answer(call, "invalid_task_number", io)

details_task(room_id, task_number, io) ==
    LET tasks == Tasks(room_id)
        call == CallAt("details_task", room_id, None, task_number)
    IN /\ io \in SendOutcomes
       /\ IF tasks = <<>> THEN Answer(call, "no_tasks", io)
          ELSE IF valid_task_number(task_number, tasks)
          THEN Answer(call, "task_details", io)
          ELSE Answer(call, "invalid_task_number", io)

edit_task(room_id, sender, task_number, new_title, io) ==
    LET tasks == Tasks(room_id)
        call == CallAt("edit_task", room_id, None, task_number)
    IN IF tasks = <<>>
       THEN io \in SendOutcomes /\ Answer(call, "no_tasks", io)
       ELSE IF valid_task_number(task_number, tasks)
       THEN Change(call,
                   [todo_lists EXCEPT ![room_id][task_number] =
                       set_title(@, sender, new_title, now)],
                   "task_edited", io)
       ELSE io \in SendOutcomes /\ Answer(call, "invalid_task_number", io)

(***************************************************************************)
(* BotManagement                                                           *)
(***************************************************************************)
\* clear_tasks emptying the list of every room
clear_tasks_everywhere(room_id, io) ==
    LET call == CallAt("clear_tasks", room_id, None, 0)
    IN IF room_id \in DOMAIN todo_lists /\ todo_lists[room_id] # <<>>
       THEN Change(call, [room \in DOMAIN todo_lists |-> <<>>], "list_cleared", io)
       ELSE io \in SendOutcomes /\ Answer(call, "nothing_to_clear", io)

clear_tasks(room_id, io) ==
    LET call == CallAt("clear_tasks", room_id, None, 0)
    IN IF room_id \in DOMAIN todo_lists /\ todo_lists[room_id] # <<>>
       THEN Change(call, [todo_lists EXCEPT ![room_id] = <<>>], "list_cleared", io)
       ELSE io \in SendOutcomes /\ Answer(call, "nothing_to_clear", io)

\* save() inside try, then the confirmation; the except clause answers both
\* a failed write and a failed confirmation with the error message
save_command(room_id, io) ==
    LET filename == save_filename(now)
    IN /\ Begin(Call("save_command",
                     IF io = "open_raises" THEN NoFile ELSE filename), io)
       /\ files' = IF io = "open_raises" THEN files
                   ELSE save_write(files, todo_lists, now)
       /\ events' =
            CASE io = "ok" -> <<OpenW(filename), Send("lists_saved")>>
              [] io = "open_raises" -> <<OpenWRaises(filename), Send("error_saving")>>
              [] io = "send_raises" ->
                    <<OpenW(filename), SendRaises("lists_saved"), Send("error_saving")>>
              [] OTHER ->
                    <<OpenW(filename), SendRaises("lists_saved"),
                      SendRaises("error_saving"), SendRaises("error_occurred")>>
       /\ running' = (io # "all_sends_raise")
       /\ UNCHANGED <<todo_lists, ready_ran>>

\* load_command without its check for ".." and "/"
load_command_rejects_by_pattern_only(filename) ==
    IF ~filename_pattern_match(filename) THEN "invalid_filename_format" ELSE "no"

\* the two checks load_command makes before it calls load()
load_command_rejects(filename) ==
    IF Contains(filename, "..") \/ Contains(filename, "/")
    THEN "invalid_filename"
    ELSE IF ~filename_pattern_match(filename)
    THEN "invalid_filename_format"
    ELSE "no"

load_command(room_id, filename, io) ==
    LET call == Call("load_command", filename)
        rejected == load_command_rejects(filename)
        r == load(files, todo_lists, filename, now)
        out == reply(IF r.ok THEN "lists_loaded" ELSE "error_loading", io)
    IN /\ io \in SendOutcomes
       /\ IF rejected # "no"
          THEN Answer(call, rejected, io)
          ELSE /\ Begin(call, io)
               /\ todo_lists' = r.lists
               /\ events' = (IF r.opened THEN <<OpenR(filename)>> ELSE <<>>)
                            \o out.events
               /\ running' = out.running
               /\ UNCHANGED <<files, ready_ran>>

loadlast_command(room_id, io) ==
    /\ io \in SendOutcomes
    /\ \E names \in list_saved_files(files) :
         IF names = <<>>
         THEN LET out == reply("no_files_found", io)
              IN /\ BeginListed(Call("loadlast_command", NoFile), io, names)
                 /\ events' = <<ListDir>> \o out.events
                 /\ running' = out.running
                 /\ UNCHANGED <<todo_lists, files, ready_ran>>
         ELSE LET most_recent_file == most_recent(names)
                  r == load(files, todo_lists, most_recent_file, now)
                  out == reply(IF r.ok THEN "last_list_loaded"
                               ELSE "error_loading_last", io)
              IN /\ BeginListed(Call("loadlast_command", most_recent_file), io,
                                names)
                 /\ todo_lists' = r.lists
                 /\ events' = <<ListDir>>
                              \o (IF r.opened THEN <<OpenR(most_recent_file)>>
                                  ELSE <<>>)
                              \o out.events
                 /\ running' = out.running
                 /\ UNCHANGED <<files, ready_ran>>

\* the listing is sent inside try; the except clause reports a failed send
list_files_command(room_id, io) ==
    /\ io \in SendOutcomes
    /\ \E names \in list_saved_files(files) :
         LET msg == IF names # <<>> THEN "available_files" ELSE "no_files_found"
         IN /\ BeginListed(Call("list_files_command", NoFile), io, names)
            /\ events' =
                 CASE io = "ok" -> <<ListDir, Send(msg)>>
                   [] io = "send_raises" ->
                         <<ListDir, SendRaises(msg), Send("error_listing")>>
                   [] OTHER ->
                         <<ListDir, SendRaises(msg), SendRaises("error_listing"),
                           SendRaises("error_occurred")>>
            /\ running' = (io # "all_sends_raise")
            /\ UNCHANGED <<todo_lists, files, ready_ran>>

(***************************************************************************)
(* setup_bot: the two callbacks                                            *)
(***************************************************************************)
\* the branches of on_message_matrix that call no handler: help and an
\* unknown command
on_message_matrix_other(room_id, msg, io) ==
    /\ io \in SendOutcomes
    /\ Answer(Call(msg, NoFile), msg, io)

\* on_message_matrix without its except ValueError clause: the except
\* Exception clause answers
on_message_matrix_ValueError_uncaught(room_id, io) ==
    /\ io \in {"ok", "all_sends_raise"}
    /\ Begin(Call("invalid_argument", NoFile), io)
    /\ events' = IF io = "ok" THEN <<Send("error_occurred")>>
                 ELSE <<SendRaises("error_occurred")>>
    /\ running' = (io = "ok")
    /\ UNCHANGED <<todo_lists, files, ready_ran>>

\* int() or the unpacking of split() raises ValueError: the except ValueError
\* clause answers, and nothing catches what its send raises
on_message_matrix_ValueError(room_id, io) ==
    /\ io \in {"ok", "all_sends_raise"}
    /\ Begin(Call("invalid_argument", NoFile), io)
    /\ events' = IF io = "ok" THEN <<Send("invalid_argument")>>
                 ELSE <<SendRaises("invalid_argument")>>
    /\ running' = (io = "ok")
    /\ UNCHANGED <<todo_lists, files, ready_ran>>

\* registered by add_event_callback for SyncError: it runs whenever the
\* client hands such an event to its callbacks, not at a fixed point
on_ready_matrix ==
    \E names \in list_saved_files(files) :
       /\ BeginCall(Call("on_ready_matrix",
                         IF names = <<>> THEN NoFile ELSE most_recent(names)),
                    "ok", names)
       /\ connection_monitor' = connection_successful(connection_monitor)
       /\ UNCHANGED <<failed, sys_exit>>
       /\ ready_ran' = TRUE
       /\ IF names = <<>>
          THEN /\ events' = <<ListDir>>
               /\ UNCHANGED todo_lists
          ELSE LET most_recent_file == most_recent(names)
                   r == load(files, todo_lists, most_recent_file, now)
               IN /\ todo_lists' = r.lists
                  /\ events' = <<ListDir>>
                        \o (IF r.opened THEN <<OpenR(most_recent_file)>> ELSE <<>>)
       /\ UNCHANGED <<files, running>>

\* datetime.now() moves on by a second
Tick ==
    /\ running
    /\ now.r < 1 + MaxClock
    /\ now' = [now EXCEPT !.r = @ + 1]
    /\ UNCHANGED <<todo_lists, files, running, ready_ran, boot, nops, nfaults,
                   cmd, prev_lists, listed, events, horizon, coroutines>>
    /\ UNCHANGED monitor_vars

(***************************************************************************)
(* StorageManager called directly, as the tests call it                    *)
(***************************************************************************)
storage_save(io) ==
    /\ io \in {"ok", "open_raises"}
    /\ Begin(Call("save", IF io = "ok" THEN save_filename(now) ELSE NoFile), io)
    /\ files' = IF io = "ok" THEN save_write(files, todo_lists, now) ELSE files
    /\ events' = IF io = "ok"
                 THEN <<OpenW(save_filename(now)), Return("", save_filename(now))>>
                 ELSE <<OpenWRaises(save_filename(now)), Raise>>
    /\ UNCHANGED <<todo_lists, running, ready_ran>>

storage_load(filename) ==
    LET r == load(files, todo_lists, filename, now)
    IN /\ Begin(Call("load", filename), "ok")
       /\ todo_lists' = r.lists
       /\ events' = (IF r.opened THEN <<OpenR(filename)>> ELSE <<>>)
                    \o <<Return(IF r.ok THEN "True" ELSE "False", NoFile)>>
       /\ UNCHANGED <<files, running, ready_ran>>

(***************************************************************************)
(* The directory the process finds.  Snapshots of earlier runs carry the   *)
(* tokens s1 and s3 and times before this run's clock; one of them is of   *)
(* the year 1999.                                                          *)
(***************************************************************************)
Stamp0 == <<2, 0>>
Stamp1999 == <<1, 9>>

OldTime == [y |-> 2, r |-> 0]

OldTask ==
    add_log(Task__init__("@alice", 0, "milk", "pending", <<>>, None, OldTime),
            "@bob", "note", OldTime)

OldTask1 == Task__init__("@bob", 1, "eggs", "pending", <<>>, None, OldTime)

OldLists == ("!r1" :> <<OldTask, OldTask1>>) @@ ("!r2" :> <<>>)

\* a task object written before creator, logs and internal_logs were kept
LegacyData == "!r2" :> <<[id |-> 0, title |-> "eggs", status |-> "done"]>>

\* the second room's task object has no title
PartialData ==
    ("!r1" :> <<json_task(OldTask)>>) @@
    ("!r2" :> <<[id |-> 0, status |-> "pending"]>>)

\* a snapshot edited by hand: the task object's internal_logs is []
NoHistoryData ==
    "!r1" :> <<[json_task(OldTask) EXCEPT !.internal_logs = <<>>]>>

OldSnap == Name(APP_NAME, <<"s3">>, Stamp0, "Z.json")
Snap1999 == Name(APP_NAME, <<"s1">>, Stamp1999, "Z.json")
OtherSnap == Name(APP_NAME, <<"s1">>, Stamp0, "Z.json")
Notes == Name("notes", <<>>, <<>>, ".txt")
\* asmith_x/../y_<stamp>Z.json : a path that leaves the directory
Nested == Name(APP_NAME, <<"x", "/", "..", "/", "y">>, Stamp0, "Z.json")

InitialDirs ==
    { <<>>,
      Notes :> Garbage,
      OldSnap :> json_dump(OldLists),
      (OldSnap :> json_dump(OldLists)) @@ (Snap1999 :> JsonObject(LegacyData)),
      (OldSnap :> json_dump(OldLists)) @@ (OtherSnap :> Garbage),
      (OtherSnap :> JsonObject(PartialData)) @@ (Nested :> JsonObject(LegacyData)),
      OtherSnap :> JsonObject(NoHistoryData) }

\* the filenames a caller may pass to load
LoadInputs ==
    { OldSnap, OtherSnap, Notes, Nested,
      Name(APP_NAME, <<"..">>, Stamp0, "Z.json"),
      Name(APP_NAME, <<"s3">>, Stamp0, ".json"),
      Name(APP_NAME, <<"s3">>, Stamp0, "Z.json\n") }
    \cup { save_filename([y |-> 2, r |-> r]) : r \in 1 .. 1 + MaxClock }

\* the places for handler coroutines in flight, and the frame of none
Slots == 1 .. MaxInFlight
NoTask == [id |-> -1]
NoFrame ==
    [name |-> None, room |-> None, sender |-> None, n |-> 0, arg |-> None,
     pc |-> 0, outcome |-> None, checked |-> NoTask, acted |-> NoTask,
     sent |-> None]

InitStorage ==
    /\ todo_lists = EmptyLists
    /\ files \in InitialDirs
    /\ now = [y |-> 2, r |-> 1]
    /\ running = TRUE
    /\ ready_ran = FALSE
    /\ boot = {f \in listdir(files) : filename_pattern_match(f)}
    /\ nops = 0
    /\ nfaults = 0
    /\ cmd = Call("none", NoFile)
    /\ prev_lists = EmptyLists
    /\ listed = <<>>
    /\ events = <<>>
    /\ coroutines = [h \in Slots |-> NoFrame]

Init ==
    /\ InitStorage
    /\ connection_monitor = ConnectionMonitor__init__(DEFAULT_MAX_RETRIES)
    /\ failed = NoFailure
    /\ sys_exit = Running
    /\ horizon = MaxOps

Next ==
    \/ \E room \in Rooms, sender \in Users, title \in Titles, io \in Outcomes :
          add_task(room, sender, title, io)
    \/ \E room \in Rooms, io \in Outcomes : list_tasks(room, io)
    \/ \E room \in Rooms, sender \in Users, n \in TaskNumbers, io \in Outcomes :
          done_task(room, sender, n, io)
    \/ \E room \in Rooms, sender \in Users, n \in TaskNumbers, io \in Outcomes :
          close_task(room, sender, n, io)
    \/ \E room \in Rooms, sender \in Users, n \in TaskNumbers, log \in LogTexts,
          io \in Outcomes : log_task(room, sender, n, log, io)
    \/ \E room \in Rooms, n \in TaskNumbers, io \in Outcomes :
          details_task(room, n, io)
    \/ \E room \in Rooms, sender \in Users, n \in TaskNumbers, title \in Titles,
          io \in Outcomes : edit_task(room, sender, n, title, io)
    \/ \E room \in Rooms, io \in Outcomes : clear_tasks(room, io)
    \/ \E room \in Rooms, io \in Outcomes : save_command(room, io)
    \/ \E room \in Rooms, filename \in LoadInputs, io \in Outcomes :
          load_command(room, strip(filename), io)
    \/ \E room \in Rooms, io \in Outcomes : loadlast_command(room, io)
    \/ \E room \in Rooms, io \in Outcomes : list_files_command(room, io)
    \/ \E room \in Rooms, msg \in {"help", "unknown_command"}, io \in Outcomes :
          on_message_matrix_other(room, msg, io)
    \/ \E room \in Rooms, io \in Outcomes : on_message_matrix_ValueError(room, io)
    \/ on_ready_matrix
    \/ Tick

Spec == Init /\ [][Next]_vars

\* the program, and StorageManager.save and load called from outside
NextAPI ==
    \/ Next
    \/ \E io \in Outcomes : storage_save(io)
    \/ \E filename \in LoadInputs : storage_load(filename)

SpecAPI == Init /\ [][NextAPI]_vars

(***************************************************************************)
(* The connection monitor, called as main and the sync loop call it.       *)
(***************************************************************************)
\* the error names given to connection_failed: the critical ones and one
\* that is not
ErrorTypes == critical_errors \cup {"TimeoutError"}

\* the exception types of main's first except clause, by name
transport_errors ==
    {"LoginError", "SyncError", "LocalProtocolError", "OlmUnpickleError",
     "EncryptionError"}

\* the exceptions that end sync_forever: those and any other
SyncExceptions == transport_errors \cup {"Exception"}

MonitorCall(name) ==
    /\ running
    /\ nops < horizon
    /\ nops' = nops + 1
    /\ cmd' = Call(name, NoFile)
    /\ UNCHANGED <<todo_lists, files, now, ready_ran, boot, nfaults, prev_lists,
                   listed, events, horizon, coroutines>>

\* sync_forever(callback=connection_monitor.connection_successful)
call_connection_successful ==
    /\ MonitorCall("connection_successful")
    /\ connection_monitor' = connection_successful(connection_monitor)
    /\ UNCHANGED <<running, failed, sys_exit>>

call_connection_failed(error_type) ==
    LET self == connection_failed_update(connection_monitor, error_type, now)
    IN /\ MonitorCall("connection_failed")
       /\ connection_monitor' = self
       /\ failed' = [error_type |-> error_type,
                     result |-> connection_failed_result(self, error_type)]
       /\ UNCHANGED <<running, sys_exit>>

\* main: sync_forever raises e.  The first except clause asks the monitor,
\* logs the status report when it says so, and calls sys.exit(1); the
\* second calls sys.exit(1)
main_except(e) ==
    LET self == connection_failed_update(connection_monitor, e, now)
        result == connection_failed_result(self, e)
    IN /\ MonitorCall("main")
       /\ running' = FALSE
       /\ IF e \in transport_errors
          THEN /\ connection_monitor' = self
               /\ failed' = [error_type |-> e, result |-> result]
               /\ sys_exit' = [status |-> 1, report |-> result, error |-> e]
          ELSE /\ sys_exit' = [status |-> 1, report |-> FALSE, error |-> e]
               /\ UNCHANGED <<connection_monitor, failed>>

InitMonitor ==
    /\ InitStorage
    /\ files = <<>>
    /\ connection_monitor \in
          {ConnectionMonitor__init__(max_retries) : max_retries \in 0 .. MaxRetries}
    /\ failed = NoFailure
    /\ sys_exit = Running
    /\ horizon = MaxCalls

NextMonitor ==
    \/ call_connection_successful
    \/ \E error_type \in ErrorTypes : call_connection_failed(error_type)
    \/ \E e \in SyncExceptions : main_except(e)
    \/ Tick

SpecMonitor == InitMonitor /\ [][NextMonitor]_vars

(***************************************************************************)
(* The task commands alone, from an empty directory, followed further      *)
(***************************************************************************)
InitTasks ==
    /\ InitStorage
    /\ files = <<>>
    /\ connection_monitor = ConnectionMonitor__init__(DEFAULT_MAX_RETRIES)
    /\ failed = NoFailure
    /\ sys_exit = Running
    /\ horizon = MaxTaskOps

NextTasks ==
    \/ \E room \in Rooms, title \in Titles, io \in Outcomes :
          add_task(room, "@alice", title, io)
    \/ \E room \in Rooms, n \in TaskNumbers, io \in Outcomes :
          done_task(room, "@alice", n, io)
    \/ \E room \in Rooms, n \in TaskNumbers, io \in Outcomes :
          close_task(room, "@bob", n, io)
    \/ \E room \in Rooms, n \in TaskNumbers, log \in LogTexts, io \in Outcomes :
          log_task(room, "@bob", n, log, io)
    \/ \E room \in Rooms, n \in TaskNumbers, title \in Titles, io \in Outcomes :
          edit_task(room, "@alice", n, title, io)
    \/ \E room \in Rooms, io \in Outcomes : clear_tasks(room, io)
    \/ \E room \in Rooms, io \in Outcomes : list_tasks(room, io)
    \/ \E room \in Rooms, n \in TaskNumbers, io \in Outcomes :
          details_task(room, n, io)

SpecTasks == InitTasks /\ [][NextTasks]_vars

(***************************************************************************)
(* One Task made by add_task, and its methods called on it directly, as    *)
(* the tests call them                                                     *)
(***************************************************************************)
TaskRoom == "!r1"
Statuses == {"pending", "in progress", "done"}
TaskLogTexts == {"note", "memo"}

\* a method of the one task of TaskRoom is called and leaves task behind
TaskCall(name, sender, task) ==
    /\ TaskRoom \in DOMAIN todo_lists
    /\ Len(todo_lists[TaskRoom]) = 1
    /\ Begin(CallAt(name, TaskRoom, sender, 1), "ok")
    /\ todo_lists' = [todo_lists EXCEPT ![TaskRoom][1] = task]
    /\ events' = <<>>
    /\ UNCHANGED <<files, running, ready_ran>>

Task_add_log(sender, log) ==
    TaskCall("Task.add_log", sender, add_log(Tasks(TaskRoom)[1], sender, log, now))

Task_set_status(sender, status) ==
    TaskCall("Task.set_status", sender,
             set_status(Tasks(TaskRoom)[1], sender, status, now))

Task_set_title(sender, title) ==
    TaskCall("Task.set_title", sender,
             set_title(Tasks(TaskRoom)[1], sender, title, now))

InitTask ==
    /\ InitStorage
    /\ files = <<>>
    /\ connection_monitor = ConnectionMonitor__init__(DEFAULT_MAX_RETRIES)
    /\ failed = NoFailure
    /\ sys_exit = Running
    /\ horizon = 1 + MaxMutations

NextTask ==
    \/ \E sender \in Users, title \in Titles :
          todo_lists = EmptyLists /\ add_task(TaskRoom, sender, title, "ok")
    \/ \E sender \in Users, log \in TaskLogTexts : Task_add_log(sender, log)
    \/ \E sender \in Users, status \in Statuses : Task_set_status(sender, status)
    \/ \E sender \in Users, title \in Titles : Task_set_title(sender, title)
    \/ Tick

SpecTask == InitTask /\ [][NextTask]_vars

(***************************************************************************)
(* Handlers as coroutines.  A handler runs without interruption from one   *)
(* await to the next; at an await another handler may run.  The frame of a *)
(* coroutine keeps its arguments, the segment it is to run next (pc, 0     *)
(* once it has returned), what its range test found, the task that was at  *)
(* the position when it was tested (checked) and the task that was there   *)
(* when the handler acted (acted).                                         *)
(***************************************************************************)
todo_lists_get(lists, room_id) ==
    IF room_id \in DOMAIN lists THEN lists[room_id] ELSE <<>>

\* tasks = todo_lists.get(room_id, []); if not tasks; if 0 < n <= len(tasks)
op_validate(st) ==
    LET co == st.co
        tasks == todo_lists_get(st.lists, co.room)
    IN IF tasks = <<>> THEN [st EXCEPT !.co.outcome = "no_tasks"]
       ELSE IF valid_task_number(co.n, tasks)
       THEN [st EXCEPT !.co.outcome = "valid", !.co.checked = tasks[co.n]]
       ELSE [st EXCEPT !.co.outcome = "invalid"]

\* tasks.pop(n - 1), or tasks[n - 1] and the method call on it; add_task
\* appends.  An index past the end raises IndexError
op_mutate(st, t) ==
    LET co == st.co
        tasks == todo_lists_get(st.lists, co.room)
    IN IF co.name = "add_task"
       THEN [st EXCEPT
                !.lists = (co.room :>
                             Append(tasks, Task__init__(co.sender, task_id(tasks),
                                                        co.arg, "pending", <<>>,
                                                        None, t))) @@ @,
                !.co.outcome = "acted"]
       ELSE IF co.outcome # "valid" THEN st
       ELSE IF co.n > Len(tasks) THEN [st EXCEPT !.co.outcome = "IndexError"]
       ELSE [st EXCEPT
                !.lists[co.room] =
                    CASE co.name \in {"done_task", "close_task"} -> pop(tasks, co.n)
                      [] co.name = "log_task" ->
                            [tasks EXCEPT ![co.n] = add_log(@, co.sender, co.arg, t)]
                      [] OTHER ->
                            [tasks EXCEPT ![co.n] = set_title(@, co.sender, co.arg, t)],
                !.co.outcome = "acted",
                !.co.acted = tasks[co.n]]

\* the message of the handler, or the error report of on_message_matrix
op_send(st) ==
    LET co == st.co
    IN [st EXCEPT !.co.sent =
           CASE co.outcome = "no_tasks" -> "no_tasks"
             [] co.outcome = "invalid" -> "invalid_task_number"
             [] co.outcome = "IndexError" -> "error_occurred"
             [] co.name = "add_task" -> "task_added"
             [] co.name = "done_task" -> "task_done"
             [] co.name = "close_task" -> "task_closed"
             [] co.name = "log_task" -> "log_added"
             [] OTHER -> "task_edited"]

\* await self.storage.save(), reached only after the mutation
op_save(st, t) ==
    IF st.co.outcome = "acted"
    THEN [st EXCEPT !.files = save_write(@, st.lists, t)]
    ELSE st

RECURSIVE run(_, _, _)
run(ops, st, t) ==
    IF ops = <<>> THEN st
    ELSE run(Tail(ops),
             CASE Head(ops) = "validate" -> op_validate(st)
               [] Head(ops) = "mutate" -> op_mutate(st, t)
               [] Head(ops) = "send" -> op_send(st)
               [] OTHER -> op_save(st, t),
             t)

\* a handler with an await between its range test and its mutation
handler_segments_await_after_test(name) ==
    IF name = "add_task"
    THEN << <<"mutate", "send">>, <<"save">> >>
    ELSE << <<"validate">>, <<"mutate", "send">>, <<"save">> >>

\* the handler up to and including each await: the range test, the mutation
\* and the call of send_matrix_message; then save().  save() itself has no
\* await, so letting the other handler run before it allows more orders
\* than the event loop produces
handler_segments(name) ==
    IF name = "add_task"
    THEN << <<"mutate", "send">>, <<"save">> >>
    ELSE << <<"validate", "mutate", "send">>, <<"save">> >>

\* the handler returns after its message when it did not act
returned(co) == co.sent # None /\ co.outcome # "acted"

\* the event loop starts a handler for a message in a free place
handler_start(h, name, room_id, sender, task_number, arg) ==
    /\ running
    /\ nops < horizon
    /\ coroutines[h].pc = 0
    /\ name = "add_task" => Len(Tasks(room_id)) < MaxTasks
    /\ nops' = nops + 1
    /\ cmd' = CallAt(name, room_id, None, task_number)
    /\ coroutines' = [coroutines EXCEPT ![h] =
          [NoFrame EXCEPT !.name = name, !.room = room_id, !.sender = sender,
                          !.n = task_number, !.arg = arg, !.pc = 1]]
    /\ UNCHANGED <<todo_lists, files, now, running, ready_ran, boot, nfaults,
                   prev_lists, listed, events, horizon>>
    /\ UNCHANGED monitor_vars

\* the event loop resumes the coroutine h, which runs to its next await
handler_resume(h) ==
    LET co == coroutines[h]
        segments == handler_segments(co.name)
        st == run(segments[co.pc],
                  [lists |-> todo_lists, files |-> files, co |-> co], now)
    IN /\ running
       /\ co.pc > 0
       /\ todo_lists' = st.lists
       /\ files' = st.files
       /\ coroutines' = [coroutines EXCEPT ![h] =
             [st.co EXCEPT !.pc = IF co.pc = Len(segments) \/ returned(st.co)
                                  THEN 0 ELSE co.pc + 1]]
       /\ UNCHANGED <<now, running, ready_ran, boot, nops, nfaults, cmd,
                      prev_lists, listed, events, horizon>>
       /\ UNCHANGED monitor_vars

InitHandlers ==
    /\ InitStorage
    /\ files = <<>>
    /\ connection_monitor = ConnectionMonitor__init__(DEFAULT_MAX_RETRIES)
    /\ failed = NoFailure
    /\ sys_exit = Running
    /\ horizon = MaxStarted

NextHandlers ==
    \/ \E h \in Slots, title \in Titles :
          handler_start(h, "add_task", TaskRoom, "@alice", 0, title)
    \/ \E h \in Slots, name \in {"done_task", "close_task"}, n \in TaskNumbers :
          handler_start(h, name, TaskRoom, "@alice", n, None)
    \/ \E h \in Slots, n \in TaskNumbers, log \in LogTexts :
          handler_start(h, "log_task", TaskRoom, "@bob", n, log)
    \/ \E h \in Slots, n \in TaskNumbers, title \in Titles :
          handler_start(h, "edit_task", TaskRoom, "@bob", n, title)
    \/ \E h \in Slots : handler_resume(h)

SpecHandlers == InitHandlers /\ [][NextHandlers]_vars

(***************************************************************************)
(* Reading the last call                                                   *)
(***************************************************************************)
Range(seq) == {seq[i] : i \in DOMAIN seq}

\* the messages the last call sent or tried to send
Attempts(ev, msgs) ==
    Cardinality({i \in DOMAIN ev : ev[i].e \in {"send", "send_raises"}
                                   /\ ev[i].msg \in msgs})

\* the last call went to the filesystem
TouchedFiles(ev) ==
    \E i \in DOMAIN ev : ev[i].e \in {"open_r", "open_w", "open_w_raises", "listdir"}

LoadCalls == {"load", "load_command", "loadlast_command"}

\* the call reported that load() returned True
LoadSucceeded(call, ev) ==
    \/ call.name = "load" /\ Return("True", NoFile) \in Range(ev)
    \/ call.name = "load_command" /\ Attempts(ev, {"lists_loaded"}) = 1
    \/ call.name = "loadlast_command" /\ Attempts(ev, {"last_list_loaded"}) = 1

\* the call reported that load() returned False
LoadFailed(call, ev) ==
    \/ call.name = "load" /\ Return("False", NoFile) \in Range(ev)
    \/ call.name = "load_command" /\ Attempts(ev, {"error_loading"}) = 1
    \/ call.name = "loadlast_command" /\ Attempts(ev, {"error_loading_last"}) = 1

\* the persisted fields of every task of every room, the history entries by
\* their timestamp, user and action
Fields(lists) ==
    [room \in DOMAIN lists |->
        [i \in DOMAIN lists[room] |->
            LET task == lists[room][i]
            IN [id |-> task.id, title |-> task.title, status |-> task.status,
                logs |-> task.logs, creator |-> task.creator,
                history |-> [k \in DOMAIN task.internal_logs |->
                                task.internal_logs[k].items]]]]

\* the valid names os.listdir shows
ValidNames(fs) == {f \in listdir(fs) : filename_pattern_match(f)}

\* the order of the tokens as strings, and of two names with one-piece
\* tokens of the same length as strings
TokenRank(token) == CHOOSE i \in 1 .. 3 : <<"s1", "s2", "s3">>[i] = token[1]
FilenameLE(a, b) ==
    \/ TokenRank(a.token) < TokenRank(b.token)
    \/ TokenRank(a.token) = TokenRank(b.token) /\ StampLE(a.stamp, b.stamp)

C2_SaveNeverOverwrites ==
    [][ \A i \in DOMAIN events' :
           (nops' = nops + 1 /\ events'[i].e = "open_w")
           => ( /\ events'[i].f \notin DOMAIN files
                /\ \A f \in DOMAIN files : files'[f] = files[f] ) ]_vars

(***************************************************************************)
(* C3  load() is all-or-nothing: when the file is missing, is not JSON or  *)
(* holds a task without id, title or status, load reports failure and the  *)
(* mapping is what it was before the call.                                 *)
(***************************************************************************)
FileCannotLoad(fs, f) ==
    \/ f \notin DOMAIN fs
    \/ fs[f].kind # "object"
    \/ \E room \in DOMAIN fs[f].data :
          \E i \in DOMAIN fs[f].data[room] : ~TaskDataOK(fs[f].data[room][i])

C3_LoadAllOrNothing ==
    ( /\ cmd.name \in LoadCalls \cup {"on_ready_matrix"}
      /\ OpenR(cmd.f) \in Range(events)
      /\ FileCannotLoad(files, cmd.f) )
    => ( /\ todo_lists = prev_lists
         /\ cmd.name \in LoadCalls => LoadFailed(cmd, events) )

\* a file whose second room cannot be rebuilt was loaded over a mapping
\* that has tasks
C3_Witness ==
    /\ cmd.name \in LoadCalls
    /\ OpenR(cmd.f) \in Range(events)
    /\ cmd.f \in DOMAIN files
    /\ files[cmd.f] = JsonObject(PartialData)
    /\ LoadFailed(cmd, events)
    /\ \E room \in DOMAIN todo_lists : todo_lists[room] # <<>>

(***************************************************************************)
(* C4  StorageManager.load(f) with a name outside the grammar              *)
(* app_token_date_timeZ.json, token non-empty and without a slash (so any  *)
(* name with "/" or "..", or not ending in Z.json) returns failure, leaves *)
(* the mapping alone and does not go to the filesystem.                    *)
(***************************************************************************)
InGrammar(f) ==
    /\ f.app = APP_NAME
    /\ Len(f.token) >= 1
    /\ ~Contains(f, "/")
    /\ ~Contains(f, "..")
    /\ Len(f.stamp) = 2
    /\ f.ext = "Z.json"

C4_LoadRejectsOutsideGrammar ==
    (cmd.name = "load" /\ ~InGrammar(cmd.f))
    => ( /\ Return("False", NoFile) \in Range(events)
         /\ ~TouchedFiles(events)
         /\ todo_lists = prev_lists )

(***************************************************************************)
(* C5  load_command rejects a name with ".." or "/" and a name that does   *)
(* not match the pattern before any filesystem access: one invalid         *)
(* filename reply, nothing else about loading, the mapping unchanged.      *)
(***************************************************************************)
C5_LoadCommandRejects ==
    ( /\ cmd.name = "load_command"
      /\ \/ Contains(cmd.f, "..")
         \/ Contains(cmd.f, "/")
         \/ ~filename_pattern_match(cmd.f) )
    => ( /\ Attempts(events, {"invalid_filename", "invalid_filename_format"}) = 1
         /\ Attempts(events, {"lists_loaded", "error_loading"}) = 0
         /\ events[1].msg \in {"invalid_filename", "invalid_filename_format"}
         /\ ~TouchedFiles(events)
         /\ todo_lists = prev_lists )

\* the name of a file that exists and parses, and has a path separator,
\* was given to the load command and turned down
C5_Witness ==
    /\ cmd.name = "load_command"
    /\ cmd.f = Nested
    /\ Nested \in DOMAIN files
    /\ filename_pattern_match(Nested)
    /\ events = <<Send("invalid_filename")>>

(***************************************************************************)
(* C6  list_files lists exactly the directory entries that match the       *)
(* pattern, their date-time segments non-decreasing from first to last.    *)
(***************************************************************************)
C6_ListingInTimeOrder ==
    cmd.name = "list_files_command"
    => ( /\ Range(listed) = ValidNames(files)
         /\ \A i, j \in DOMAIN listed :
               i < j => StampLE(listed[i].stamp, listed[j].stamp) )

C8_LoadLastNoFiles ==
    (cmd.name = "loadlast_command" /\ ValidNames(files) = {})
    => ( /\ events[1] = ListDir
         /\ events[2].msg = "no_files_found"
         /\ Attempts(events, {"no_files_found"}) = 1
         /\ Attempts(events, {"last_list_loaded", "error_loading_last"}) = 0
         /\ \A i \in DOMAIN events : events[i].e # "open_r"
         /\ cmd.f = NoFile
         /\ todo_lists = prev_lists )

\* loadlast ran in a directory that holds only a file of another name
C8_Witness ==
    /\ cmd.name = "loadlast_command"
    /\ Notes \in DOMAIN files
    /\ ValidNames(files) = {}
    /\ events = <<ListDir, Send("no_files_found")>>

(***************************************************************************)
(* C9  When the directory holds a valid snapshot at start, the most recent *)
(* one has been loaded before the first chat command is handled.           *)
(***************************************************************************)
C9_AutoLoadBeforeFirstCommand ==
    (cmd.name \notin {"none", "on_ready_matrix", "save", "load"} /\ boot # {})
    => ready_ran

(***************************************************************************)
(* C10  A command that has changed a room's list has written, in the same  *)
(* call, a snapshot that holds the mapping as it now is, whatever became   *)
(* of its confirmation message.  Stated for the calls whose write did not  *)
(* fail and after which the service still runs.                            *)
(***************************************************************************)
MutatingCalls ==
    {"add_task", "done_task", "close_task", "log_task", "edit_task", "clear_tasks"}

C10_ChangeIsSaved ==
    ( /\ cmd.name \in MutatingCalls
      /\ todo_lists # prev_lists
      /\ running
      /\ \A i \in DOMAIN events : events[i].e # "open_w_raises" )
    => \E i \in DOMAIN events :
          /\ events[i].e = "open_w"
          /\ files[events[i].f] = json_dump(todo_lists)

(***************************************************************************)
(* C11  The Nth of a run of add calls in a room that starts from an empty  *)
(* list appends, at position N, a task with id N-1, status pending and the *)
(* caller as creator.  Every add appends one task whose id is the length   *)
(* of the list before it and leaves the earlier tasks as they were; where  *)
(* nothing could be loaded and the room holds as many tasks as calls were  *)
(* made, every call was an add in that room, and the task at position i    *)
(* has id i-1.                                                             *)
(***************************************************************************)
TasksOf(lists, room) == IF room \in DOMAIN lists THEN lists[room] ELSE <<>>

C11_NthAddHasIdNMinus1 ==
    /\ cmd.name = "add_task"
       => LET before == TasksOf(prev_lists, cmd.room)
              after == TasksOf(todo_lists, cmd.room)
              N == Len(before) + 1
          IN /\ Len(after) = N
             /\ SubSeq(after, 1, N - 1) = before
             /\ after[N].id = N - 1
             /\ after[N].status = "pending"
             /\ after[N].creator = cmd.sender
             /\ after[N].logs = <<>>
    /\ \A room \in Rooms :
          (boot = {} /\ nops >= 1 /\ Len(Tasks(room)) = nops)
          => \A i \in 1 .. nops :
                Tasks(room)[i].id = i - 1 /\ Tasks(room)[i].status = "pending"

\* two adds by two users, and nothing else, have been made in one room
C11_Witness ==
    /\ cmd.name = "add_task"
    /\ boot = {}
    /\ nops = 2
    /\ Len(Tasks(cmd.room)) = 2
    /\ Tasks(cmd.room)[2].id = 1
    /\ Tasks(cmd.room)[2].creator = cmd.sender
    /\ Tasks(cmd.room)[1].creator # cmd.sender

(***************************************************************************)
(* C12  as claimed: done or close on an empty list, or with a position     *)
(* outside 1..length, leaves the mapping alone, writes no snapshot and     *)
(* answers "invalid task number".                                          *)
(***************************************************************************)
RemoveCalls == {"done_task", "close_task"}

NoSnapshotWritten(ev) ==
    \A i \in DOMAIN ev : ev[i].e \notin {"open_w", "open_w_raises"}

C12_RemoveOutOfRangeSaysInvalid ==
    ( /\ cmd.name \in RemoveCalls
      /\ \/ TasksOf(prev_lists, cmd.room) = <<>>
         \/ cmd.n \notin 1 .. Len(TasksOf(prev_lists, cmd.room)) )
    => ( /\ todo_lists = prev_lists
         /\ NoSnapshotWritten(events)
         /\ events[1].msg = "invalid_task_number"
         /\ Attempts(events, {"invalid_task_number"}) = 1 )

(***************************************************************************)
(* C12  amended: done or close on an empty or missing list answers "no     *)
(* tasks", and with a position outside 1..length of a list that has tasks  *)
(* answers "invalid task number"; in both cases the mapping is left alone  *)
(* and no snapshot is written.                                             *)
(***************************************************************************)
C12_RemoveOutOfRangeLeavesList ==
    ( /\ cmd.name \in RemoveCalls
      /\ \/ TasksOf(prev_lists, cmd.room) = <<>>
         \/ cmd.n \notin 1 .. Len(TasksOf(prev_lists, cmd.room)) )
    => LET answer == IF TasksOf(prev_lists, cmd.room) = <<>>
                     THEN "no_tasks" ELSE "invalid_task_number"
       IN /\ todo_lists = prev_lists
          /\ NoSnapshotWritten(events)
          /\ events[1].msg = answer
          /\ Attempts(events, {"no_tasks", "invalid_task_number"}) = 1
          /\ Attempts(events, {"task_done", "task_closed"}) = 0

\* done or close was called with a position past the end of a list that
\* has tasks
C12_Witness ==
    /\ cmd.name \in RemoveCalls
    /\ TasksOf(prev_lists, cmd.room) # <<>>
    /\ cmd.n > Len(TasksOf(prev_lists, cmd.room))
    /\ events = <<Send("invalid_task_number")>>
    /\ todo_lists = prev_lists

(***************************************************************************)
(* C13  log, done, close, details and edit addressed to a room whose list  *)
(* is empty or that has no list answer "no tasks" whatever the position,   *)
(* create no entry for the room and write no snapshot.                     *)
(***************************************************************************)
PositionalCalls == {"log_task", "done_task", "close_task", "details_task", "edit_task"}

C13_PositionalOnEmptySaysNoTasks ==
    (cmd.name \in PositionalCalls /\ TasksOf(prev_lists, cmd.room) = <<>>)
    => ( /\ events[1].msg = "no_tasks"
         /\ Attempts(events, {"no_tasks"}) = 1
         /\ Attempts(events, {"invalid_task_number", "task_details", "log_added",
                              "task_edited", "task_done", "task_closed"}) = 0
         /\ DOMAIN todo_lists = DOMAIN prev_lists
         /\ todo_lists = prev_lists
         /\ NoSnapshotWritten(events)
         /\ (events[1].e = "send" => running) )

\* details was asked for position 1 in a room that has no list while
\* another room has tasks
C13_Witness ==
    /\ cmd.name = "details_task"
    /\ cmd.n = 1
    /\ cmd.room \notin DOMAIN todo_lists
    /\ \E room \in DOMAIN todo_lists : todo_lists[room] # <<>>
    /\ events = <<Send("no_tasks")>>
    /\ running

(***************************************************************************)
(* C14  connection_failed returns True exactly when, after the increment,  *)
(* the error is one of the five critical kinds and the consecutive count   *)
(* is at least 2, or the consecutive count is at least max_retries.  With  *)
(* max_retries 3 a run of non-critical failures gets False, False, True    *)
(* and a run of critical ones False, True.                                 *)
(***************************************************************************)
C14_TerminateExactlyWhen ==
    cmd.name = "connection_failed"
    => LET count == connection_monitor.consecutive_failures
           critical == failed.error_type \in
                          {"LoginError", "SyncError", "LocalProtocolError",
                           "OlmUnpickleError", "EncryptionError"}
       IN /\ failed.result
             <=> ( \/ critical /\ count >= 2
                   \/ count >= connection_monitor.max_retries )
          /\ (connection_monitor.max_retries = 3 /\ ~critical)
             => (failed.result <=> count >= 3)
          /\ (connection_monitor.max_retries = 3 /\ critical)
             => (failed.result <=> count >= 2)

\* the second of two consecutive critical failures made a monitor with
\* max_retries 3 say True
C14_Witness ==
    /\ cmd.name = "connection_failed"
    /\ connection_monitor.max_retries = 3
    /\ connection_monitor.consecutive_failures = 2
    /\ failed.error_type = "SyncError"
    /\ failed.result

(***************************************************************************)
(* C15  connection_successful sets the consecutive count to zero and       *)
(* leaves the total, the histogram and the first and last failure times    *)
(* as they were; over every sequence of calls the total and every entry of *)
(* the histogram never decrease.                                           *)
(***************************************************************************)
C15_SuccessResetsConsecutiveOnly ==
    [][ /\ (cmd'.name = "connection_successful" /\ nops' # nops)
           => /\ connection_monitor'.consecutive_failures = 0
              /\ connection_monitor' =
                    [connection_monitor EXCEPT !.consecutive_failures = 0]
        /\ connection_monitor'.total_failures >= connection_monitor.total_failures
        /\ \A k \in DOMAIN connection_monitor.failure_types :
              /\ k \in DOMAIN connection_monitor'.failure_types
              /\ connection_monitor'.failure_types[k]
                    >= connection_monitor.failure_types[k] ]_vars

\* a success was reported after two failures of different kinds
C15_Witness ==
    /\ cmd.name = "connection_successful"
    /\ connection_monitor.consecutive_failures = 0
    /\ connection_monitor.total_failures = 2
    /\ Cardinality(DOMAIN connection_monitor.failure_types) = 2
    /\ connection_monitor.first_failure_time # NoTime
    /\ connection_monitor.last_failure_time # connection_monitor.first_failure_time

(***************************************************************************)
(* C16  After a transport error the process exits if and only if           *)
(* connection_failed returned True for that error; while it returns False  *)
(* the service keeps retrying.                                             *)
(***************************************************************************)
C16_ExitsOnlyWhenMonitorSaysSo ==
    (cmd.name = "main" /\ sys_exit.error \in transport_errors)
    => /\ (sys_exit.status = 1) <=> failed.result
       /\ failed.result => sys_exit.report

(***************************************************************************)
(* C17  Every task of the mapping has a history of at least one entry in   *)
(* every state, and from one state to the next the logs and the history of *)
(* a task that stays in the mapping keep what they held and its creator    *)
(* stays the same.  A load puts new Task objects in the mapping; done and  *)
(* close take one task out and clear takes a room's tasks out.             *)
(***************************************************************************)
IsPrefix(a, b) == Len(a) <= Len(b) /\ SubSeq(b, 1, Len(a)) = a

Extends(old, new) ==
    /\ new.creator = old.creator
    /\ IsPrefix(old.logs, new.logs)
    /\ IsPrefix(old.internal_logs, new.internal_logs)

\* the position after the call of the task that was at position i of room,
\* 0 when the call took it out of the mapping
PositionAfter(call, lists, room, i) ==
    CASE call.name \in {"load", "load_command", "loadlast_command",
                        "on_ready_matrix"} -> 0
      [] call.name = "clear_tasks" /\ call.room = room -> 0
      [] /\ call.name \in {"done_task", "close_task"}
         /\ call.room = room
         /\ call.n \in 1 .. Len(lists[room]) ->
            IF i < call.n THEN i ELSE IF i = call.n THEN 0 ELSE i - 1
      [] OTHER -> i

C18_RoomKeyGoesWithLastTask ==
    ( /\ cmd.name \in RemoveCalls
      /\ Len(TasksOf(prev_lists, cmd.room)) = 1
      /\ cmd.n = 1 )
    => cmd.room \notin DOMAIN todo_lists

(***************************************************************************)
(* C19  A message with an unknown command, or with a missing or            *)
(* non-integer task number, gets the fixed "unknown command" or "invalid   *)
(* argument" reply; the mapping is unchanged, no file is touched, and once *)
(* the reply is sent the service is still running.                         *)
(***************************************************************************)
C19_InputErrorsAreNotFatal ==
    cmd.name \in {"unknown_command", "invalid_argument"}
    => ( /\ events[1].msg = cmd.name
         /\ Attempts(events, {cmd.name}) = 1
         /\ todo_lists = prev_lists
         /\ ~TouchedFiles(events)
         /\ events[1].e = "send" => (running /\ events = <<Send(cmd.name)>>) )

\* a malformed task number was answered while a room has tasks, and the
\* service runs
C19_Witness ==
    /\ cmd.name = "invalid_argument"
    /\ events = <<Send("invalid_argument")>>
    /\ \E room \in DOMAIN todo_lists : todo_lists[room] # <<>>
    /\ todo_lists = prev_lists
    /\ running

(***************************************************************************)
(* C20  A failed snapshot write is reported.  In the save command: no      *)
(* filename, no "saved" confirmation, one error reply, the mapping         *)
(* unchanged.  In a mutating command: an error reply, and the service      *)
(* keeps running.                                                          *)
(***************************************************************************)
WriteFailed(ev) == \E i \in DOMAIN ev : ev[i].e = "open_w_raises"

C20_WriteFailureIsReported ==
    /\ (cmd.name = "save_command" /\ WriteFailed(events))
       => ( /\ cmd.f = NoFile
            /\ Attempts(events, {"lists_saved"}) = 0
            /\ Send("error_saving") \in Range(events)
            /\ Attempts(events, {"error_saving"}) = 1
            /\ todo_lists = prev_lists
            /\ running )
    /\ (cmd.name \in MutatingCalls /\ WriteFailed(events))
       => ( /\ Send("error_occurred") \in Range(events)
            /\ events[Len(events)] = Send("error_occurred")
            /\ running )

\* the write of a mutating command failed and was reported
C20_Witness ==
    /\ cmd.name \in MutatingCalls
    /\ todo_lists # prev_lists
    /\ events = <<Send("task_added"), OpenWRaises(save_filename(now)),
                  Send("error_occurred")>>
    /\ save_filename(now) \notin DOMAIN files
    /\ running

(***************************************************************************)
(* C21  In every mutating command the list is changed first, the snapshot  *)
(* is written next and the confirmation is sent last: no confirmation is   *)
(* sent, or tried, before the snapshot of the changed mapping is written.  *)
(***************************************************************************)
Confirmations ==
    {"task_added", "task_done", "task_closed", "log_added", "task_edited",
     "list_cleared"}

C21_SnapshotBeforeConfirmation ==
    (cmd.name \in MutatingCalls /\ todo_lists # prev_lists)
    => \A i \in DOMAIN events :
          (events[i].e \in {"send", "send_raises"} /\ events[i].msg \in Confirmations)
          => \E j \in 1 .. i - 1 :
                events[j].e = "open_w" /\ files[events[j].f] = json_dump(todo_lists)

(***************************************************************************)
(* C22  done or close with a position n inside 1..length takes out exactly *)
(* the task at position n: the tasks before n stay where they were, the    *)
(* tasks after n move down by one, in the same order, and every field of   *)
(* every remaining task is what it was.                                    *)
(***************************************************************************)
C22_RemoveTakesOutPositionN ==
    LET before == TasksOf(prev_lists, cmd.room)
        after == TasksOf(todo_lists, cmd.room)
    IN (cmd.name \in RemoveCalls /\ cmd.n \in 1 .. Len(before))
       => /\ Len(after) = Len(before) - 1
          /\ \A i \in 1 .. cmd.n - 1 : after[i] = before[i]
          /\ \A i \in cmd.n .. Len(after) : after[i] = before[i + 1]

\* done or close took the first of two tasks out and the second moved down
C22_Witness ==
    /\ cmd.name \in RemoveCalls
    /\ cmd.n = 1
    /\ Len(TasksOf(prev_lists, cmd.room)) = 2
    /\ TasksOf(todo_lists, cmd.room) = <<prev_lists[cmd.room][2]>>
    /\ events[1] = Send(IF cmd.name = "done_task" THEN "task_done" ELSE "task_closed")

(***************************************************************************)
(* C23  The creation of a task leaves one history entry and each call of   *)
(* set_status, set_title and add_log appends exactly one more, keeping the *)
(* entries before it: a task made by add and not loaded since has a        *)
(* history of length 1 + the number of method calls made on it.  add_log   *)
(* makes logs one element longer, the new element last; the other two      *)
(* leave logs alone.                                                       *)
(***************************************************************************)
TaskMethods == {"Task.add_log", "Task.set_status", "Task.set_title"}

C23_OneHistoryEntryPerMutation ==
    /\ \A room \in DOMAIN todo_lists : \A i \in DOMAIN todo_lists[room] :
          Len(todo_lists[room][i].internal_logs) = 1 + (nops - 1)
    /\ cmd.name = "add_task" => Len(todo_lists[cmd.room][1].internal_logs) = 1
    /\ cmd.name \in TaskMethods =>
          LET old == prev_lists[cmd.room][1]
              new == todo_lists[cmd.room][1]
          IN /\ Len(new.internal_logs) = Len(old.internal_logs) + 1
             /\ IsPrefix(old.internal_logs, new.internal_logs)
             /\ IF cmd.name = "Task.add_log"
                THEN \E log \in TaskLogTexts : new.logs = Append(old.logs, log)
                ELSE new.logs = old.logs

\* the three methods were called on a task after its creation, add_log last
\* and on a task that had a note already
C23_Witness ==
    /\ nops = 1 + MaxMutations
    /\ cmd.name = "Task.add_log"
    /\ Len(Tasks(TaskRoom)[1].internal_logs) = 4
    /\ Tasks(TaskRoom)[1].logs = <<"note", "memo">>
    /\ Tasks(TaskRoom)[1].status = "done"

(***************************************************************************)
(* C24  log and edit with a position n inside 1..length change the task at *)
(* position n where it is: the list keeps its length and order, every      *)
(* other task is what it was, and of task n log changes only logs and the  *)
(* history, edit only the title and the history.  With n outside           *)
(* 1..length of a list that has tasks nothing is changed, no snapshot is   *)
(* written and the answer is "invalid task number".                        *)
(***************************************************************************)
InPlaceCalls == {"log_task", "edit_task"}

C24_LogAndEditInPlace ==
    LET before == TasksOf(prev_lists, cmd.room)
        after == TasksOf(todo_lists, cmd.room)
    IN (cmd.name \in InPlaceCalls /\ before # <<>>)
       => IF cmd.n \in 1 .. Len(before)
          THEN LET old == before[cmd.n]
                   new == after[cmd.n]
               IN /\ Len(after) = Len(before)
                  /\ \A i \in DOMAIN before : i # cmd.n => after[i] = before[i]
                  /\ new.id = old.id
                  /\ new.status = old.status
                  /\ new.creator = old.creator
                  /\ Len(new.internal_logs) = Len(old.internal_logs) + 1
                  /\ IsPrefix(old.internal_logs, new.internal_logs)
                  /\ IF cmd.name = "log_task"
                     THEN /\ new.title = old.title
                          /\ \E log \in LogTexts : new.logs = Append(old.logs, log)
                     ELSE /\ new.logs = old.logs
                          /\ new.title \in Titles
          ELSE /\ todo_lists = prev_lists
               /\ NoSnapshotWritten(events)
               /\ events[1].msg = "invalid_task_number"
               /\ Attempts(events, {"invalid_task_number"}) = 1
               /\ Attempts(events, {"log_added", "task_edited"}) = 0

\* the second of two tasks, which has a note, was given another title
C24_Witness ==
    /\ cmd.name = "edit_task"
    /\ cmd.n = 2
    /\ Len(TasksOf(prev_lists, cmd.room)) = 2
    /\ prev_lists[cmd.room][2].logs # <<>>
    /\ todo_lists[cmd.room][2].title # prev_lists[cmd.room][2].title
    /\ todo_lists[cmd.room][2].logs = prev_lists[cmd.room][2].logs
    /\ todo_lists[cmd.room][1] = prev_lists[cmd.room][1]

\* log was called with a position past the end of a list that has tasks
C24_WitnessOutOfRange ==
    /\ cmd.name = "log_task"
    /\ TasksOf(prev_lists, cmd.room) # <<>>
    /\ cmd.n > Len(TasksOf(prev_lists, cmd.room))
    /\ events = <<Send("invalid_task_number")>>

(***************************************************************************)
(* C25  as claimed: with max_retries above 2, connection_failed returns    *)
(* True while the consecutive count is below max_retries only when the     *)
(* error of this call and the error of the failure just before it, with no *)
(* success between the two, are both critical.                             *)
(***************************************************************************)
EarlyTrue ==
    /\ nops' # nops
    /\ cmd'.name = "connection_failed"
    /\ connection_monitor.max_retries > 2
    /\ failed'.result
    /\ connection_monitor'.consecutive_failures < connection_monitor.max_retries

C25_EarlyTrueNeedsTwoCritical ==
    [][ EarlyTrue
        => /\ failed'.error_type \in critical_errors
           /\ connection_monitor.consecutive_failures >= 1
           /\ failed.error_type \in critical_errors ]_vars

(***************************************************************************)
(* C25  amended: with max_retries above 2, connection_failed returns True  *)
(* while the consecutive count is below max_retries only when the error of *)
(* this call is critical and the call is at least the second failure since *)
(* the last success; the failure before it may be of any kind.             *)
(***************************************************************************)
C25_EarlyTrueNeedsCriticalSecond ==
    [][ EarlyTrue
        => /\ failed'.error_type \in critical_errors
           /\ connection_monitor.consecutive_failures >= 1
           /\ connection_monitor'.consecutive_failures >= 2 ]_vars

\* a monitor with max_retries 3 said True to a critical failure that came
\* straight after a non-critical one
C25_Witness ==
    /\ cmd.name = "connection_failed"
    /\ connection_monitor.max_retries = 3
    /\ connection_monitor.consecutive_failures = 2
    /\ connection_monitor.total_failures = 2
    /\ connection_monitor.failure_types = ("SyncError" :> 1) @@ ("TimeoutError" :> 1)
    /\ failed = [error_type |-> "SyncError", result |-> TRUE]

(***************************************************************************)
(* C26  list and details change nothing: after either, in any room, the    *)
(* mapping, every list and every task are what they were, a room that had  *)
(* no entry has none, and no snapshot is written nor any file touched.     *)
(***************************************************************************)
ReadOnlyCalls == {"list_tasks", "details_task"}

C26_ListAndDetailsChangeNothing ==
    [][ (nops' # nops /\ cmd'.name \in ReadOnlyCalls)
        => /\ todo_lists' = todo_lists
           /\ DOMAIN todo_lists' = DOMAIN todo_lists
           /\ files' = files
           /\ NoSnapshotWritten(events')
           /\ ~TouchedFiles(events') ]_vars

\* the list of a room without an entry was asked for while another room
\* has a task
C26_Witness ==
    /\ cmd.name = "list_tasks"
    /\ cmd.room \notin DOMAIN todo_lists
    /\ \E room \in DOMAIN todo_lists : todo_lists[room] # <<>>
    /\ events = <<Send("no_tasks")>>
    /\ todo_lists = prev_lists

(***************************************************************************)
(* C27  add, done, close, log, edit and clear sent from one room leave     *)
(* every other room as it was: the same tasks in the same order with the   *)
(* same fields, and an entry in the mapping exactly if it had one.         *)
(***************************************************************************)
C27_OtherRoomsUntouched ==
    cmd.name \in MutatingCalls
    => \A room \in Rooms \ {cmd.room} :
          /\ room \in DOMAIN todo_lists <=> room \in DOMAIN prev_lists
          /\ TasksOf(todo_lists, room) = TasksOf(prev_lists, room)

\* a room's list was cleared while the other room kept its task
C27_Witness ==
    /\ cmd.name = "clear_tasks"
    /\ TasksOf(prev_lists, cmd.room) # <<>>
    /\ TasksOf(todo_lists, cmd.room) = <<>>
    /\ \E room \in Rooms \ {cmd.room} :
          /\ TasksOf(todo_lists, room) # <<>>
          /\ TasksOf(todo_lists, room) = TasksOf(prev_lists, room)

(***************************************************************************)
(* C28  A load that succeeds, from whichever room it is asked, replaces    *)
(* the lists of all rooms: afterwards the rooms of the mapping are exactly *)
(* the rooms of the snapshot, each with as many tasks as the snapshot      *)
(* gives it, and the rooms the snapshot lacks are gone.  The mapping that  *)
(* is replaced is not written to a snapshot first: the load writes no      *)
(* file.                                                                   *)
(***************************************************************************)
LoadedFile(ev) == (CHOOSE i \in DOMAIN ev : ev[i].e = "open_r")

C28_LoadReplacesAllRooms ==
    [][ (nops' # nops /\ cmd'.name \in LoadCalls /\ LoadSucceeded(cmd', events'))
        => LET f == events'[LoadedFile(events')].f
               data == files[f].data
           IN /\ DOMAIN todo_lists' = DOMAIN data
              /\ \A room \in DOMAIN data :
                    Len(todo_lists'[room]) = Len(data[room])
              /\ \A room \in DOMAIN todo_lists \ DOMAIN data :
                    room \notin DOMAIN todo_lists'
              /\ NoSnapshotWritten(events')
              /\ files' = files ]_vars

\* a load asked from one room succeeded and took away the tasks of a room
\* the snapshot does not have
C28_Witness ==
    /\ cmd.name \in {"load_command", "loadlast_command"}
    /\ LoadSucceeded(cmd, events)
    /\ \E room \in DOMAIN prev_lists :
          /\ prev_lists[room] # <<>>
          /\ room \notin DOMAIN todo_lists
    /\ todo_lists # EmptyLists
    /\ NoSnapshotWritten(events)

(***************************************************************************)
(* C29  In every state reached by add, done, close, log, edit and clear,   *)
(* removals included, the ids of the tasks of one room's list are pairwise *)
(* distinct.                                                               *)
(***************************************************************************)
C29_IdsDistinctInRoom ==
    \A room \in DOMAIN todo_lists :
       \A i, j \in DOMAIN todo_lists[room] :
          i # j => todo_lists[room][i].id # todo_lists[room][j].id

(***************************************************************************)
(* C30  Once connection_failed has returned True, every later call of it   *)
(* with no connection_successful in between returns True as well, whatever *)
(* the error and for every max_retries from 1 up.                          *)
(***************************************************************************)
C30_TrueStaysTrueInStreak ==
    [][ ( /\ nops' # nops
          /\ cmd'.name = "connection_failed"
          /\ connection_monitor.max_retries >= 1
          /\ connection_monitor.consecutive_failures >= 1
          /\ failed.result )
        => failed'.result ]_vars

(***************************************************************************)
(* C31  Whenever a mutating command that changed the mapping, or a load    *)
(* that succeeded, has completed and the service is idle, the directory    *)
(* has a snapshot that loadlast would select and that snapshot holds the   *)
(* mapping as it now is in memory.                                         *)
(***************************************************************************)
C31_MostRecentSnapshotIsMemory ==
    ( /\ running
      /\ \/ cmd.name \in MutatingCalls /\ todo_lists # prev_lists
         \/ cmd.name \in LoadCalls /\ LoadSucceeded(cmd, events) )
    => \A names \in list_saved_files(files) :
          /\ names # <<>>
          /\ files[most_recent(names)] = json_dump(todo_lists)

(***************************************************************************)
(* C32  With two handlers interleaved at their awaits, a done, close, log  *)
(* or edit that passed its range test acts on the task that was at the     *)
(* tested position when it was tested, and never indexes past the end of   *)
(* the list: no handler is suspended between the test and the mutation.    *)
(***************************************************************************)
PositionalMutators == {"done_task", "close_task", "log_task", "edit_task"}

C32_ActsOnValidatedTask ==
    \A h \in Slots :
       LET co == coroutines[h]
       IN co.name \in PositionalMutators
          => /\ co.outcome # "IndexError"
             /\ co.outcome # "valid"
             /\ co.outcome = "acted"
                => co.checked # NoTask /\ co.acted = co.checked

\* while a done that removed the first task is suspended at its await,
\* another handler tested position 1 and acted on the task that had moved
\* there
C32_Witness ==
    \E h, g \in Slots :
       /\ h # g
       /\ coroutines[h].name = "done_task"
       /\ coroutines[h].n = 1
       /\ coroutines[h].outcome = "acted"
       /\ coroutines[h].pc > 0
       /\ coroutines[g].name = "log_task"
       /\ coroutines[g].n = 1
       /\ coroutines[g].outcome = "acted"
       /\ coroutines[g].pc > 0
       /\ coroutines[g].acted.id # coroutines[h].acted.id
       /\ coroutines[g].acted = coroutines[g].checked

(***************************************************************************)
(* C33  The name under which save() has written a snapshot matches         *)
(* filename_pattern: straight after the save it is in the listing of       *)
(* list_saved_files, load() of it succeeds, and the load command does not  *)
(* turn it down.                                                           *)
(***************************************************************************)
C33_SavedNameIsValid ==
    \A i \in DOMAIN events :
       events[i].e = "open_w"
       => LET f == events[i].f
          IN /\ f.token = <<session_id>>
             /\ f.app = APP_NAME
             /\ filename_pattern_match(f)
             /\ f \in DOMAIN files
             /\ \A names \in list_saved_files(files) : f \in Range(names)
             /\ load(files, todo_lists, f, now).ok
             /\ load_command_rejects(f) = "no"
             /\ cmd.name = "save" => Return("", f) \in Range(events)

\* save() was called directly with tasks in memory, in a directory that
\* holds another file, and returned the name it wrote
C33_Witness ==
    /\ cmd.name = "save"
    /\ events = <<OpenW(cmd.f), Return("", cmd.f)>>
    /\ filename_pattern_match(cmd.f)
    /\ cmd.f \in DOMAIN files
    /\ Cardinality(DOMAIN files) >= 2
    /\ todo_lists # EmptyLists

(***************************************************************************)
(* C34  In a run that started with an empty directory, whatever commands   *)
(* and loads were made, every task of every room's list has the status     *)
(* "pending", and so has every task of every snapshot in the directory:    *)
(* done and close set the status of the task they have taken out.          *)
(***************************************************************************)
\* every file in the directory was written by this run
StartedEmpty == \A f \in DOMAIN files : f.token = <<session_id>>

C34_EveryTaskIsPending ==
    StartedEmpty
    => /\ \A room \in DOMAIN todo_lists : \A i \in DOMAIN todo_lists[room] :
             todo_lists[room][i].status = "pending"
       /\ \A f \in DOMAIN files : \A room \in DOMAIN files[f].data :
             \A i \in DOMAIN files[f].data[room] :
                files[f].data[room][i].status = "pending"

\* done or close took the only task of a room out; the directory, empty at
\* the start, holds the snapshot from before with the task pending and the
\* snapshot from after without it
C34_Witness ==
    /\ StartedEmpty
    /\ cmd.name \in RemoveCalls
    /\ Len(TasksOf(prev_lists, cmd.room)) = 1
    /\ TasksOf(todo_lists, cmd.room) = <<>>
    /\ \E f, g \in DOMAIN files :
          /\ files[f] = json_dump(prev_lists)
          /\ files[g] = json_dump(todo_lists)
          /\ files[f].data[cmd.room][1].status = "pending"

(***************************************************************************)
(* C35  In every state of the monitor total_failures is the sum of the     *)
(* counts of failure_types and 0 <= consecutive_failures <=                *)
(* total_failures.  Each connection_failed(kind) adds one to               *)
(* consecutive_failures, to total_failures and to the entry of kind, and   *)
(* leaves the entries of the other kinds as they were.                     *)
(***************************************************************************)
RECURSIVE SumOf(_)
SumOf(counts) ==
    IF DOMAIN counts = {} THEN 0
    ELSE LET k == CHOOSE k \in DOMAIN counts : TRUE
         IN counts[k] + SumOf([j \in DOMAIN counts \ {k} |-> counts[j]])

CountOf(counts, kind) == IF kind \in DOMAIN counts THEN counts[kind] ELSE 0

C35_CountersAgree ==
    [][ /\ connection_monitor'.total_failures
              = SumOf(connection_monitor'.failure_types)
        /\ 0 <= connection_monitor'.consecutive_failures
        /\ connection_monitor'.consecutive_failures
              <= connection_monitor'.total_failures
        /\ (nops' # nops /\ cmd'.name = "connection_failed")
           => LET old == connection_monitor
                  new == connection_monitor'
                  kind == failed'.error_type
              IN /\ new.consecutive_failures = old.consecutive_failures + 1
                 /\ new.total_failures = old.total_failures + 1
                 /\ CountOf(new.failure_types, kind)
                       = CountOf(old.failure_types, kind) + 1
                 /\ \A k \in ErrorTypes \ {kind} :
                       CountOf(new.failure_types, k) = CountOf(old.failure_types, k)
                 /\ DOMAIN new.failure_types = DOMAIN old.failure_types \cup {kind}
      ]_vars

\* three failures of two kinds with a success before the last: one entry
\* of the histogram is 2, the other 1, and the consecutive count is 1
C35_Witness ==
    /\ cmd.name = "connection_failed"
    /\ connection_monitor.total_failures = 3
    /\ connection_monitor.consecutive_failures = 1
    /\ Cardinality(DOMAIN connection_monitor.failure_types) = 2
    /\ CountOf(connection_monitor.failure_types, failed.error_type) = 2
    /\ SumOf(connection_monitor.failure_types) = 3

====
